---- MODULE Spec2Model ----
(***************************************************************************)
(* Model of KsHook::read (src/src/lib.rs): the decoder of one Keysight     *)
(* SCPI response (a text line or a definite-length binary block) from a    *)
(* buffered byte stream.  The stream is a finite byte sequence followed by *)
(* a clean close (read returns 0 bytes); every and_then step of the        *)
(* closure chain is one action.                                            *)
(***************************************************************************)
EXTENDS Integers, Sequences, FiniteSets, TLC

\* ------------------------------------------------------------------ bounds
MaxLen == 5
MaxCalls == 3

\* --------------------------------------------------------- byte constants
LF == 10
CR == 13
HASH == 35

\* The bytes the peer may send: \n, \r, '#', '+', '0', '1', '2' and 0x80
\* (a byte that is not valid UTF-8 on its own).
Bytes == {10, 13, 35, 43, 48, 49, 50, 128}

Streams == UNION {[1..m -> Bytes] : m \in 0..MaxLen}

VARIABLES input, pos, pc, buf, end, k, n, results

vars == <<input, pos, pc, buf, end, k, n, results>>

\* ------------------------------------------------------------ pure helpers
Front(s) == SubSeq(s, 1, Len(s) - 1)

Last(s) == s[Len(s)]

\* remove_newline that strips the \n and leaves the \r before it
remove_newline_keep_cr(text) ==
    IF text = <<>> THEN text
    ELSE IF Last(text) = LF THEN Front(text) ELSE text

\* remove_newline with the \r stripped even when no \n follows it
remove_newline_trim(text) ==
    IF text = <<>> THEN text
    ELSE IF Last(text) = LF
         THEN IF Front(text) = <<>> THEN <<>>
              ELSE IF Last(Front(text)) = CR
                   THEN Front(Front(text))
                   ELSE Front(text)
         ELSE IF Last(text) = CR THEN Front(text) ELSE text

\* fn remove_newline(text: &mut Vec<u8>)
remove_newline(text) ==
    IF text = <<>> THEN text
    ELSE IF Last(text) = LF
         THEN IF Front(text) = <<>> THEN <<>>
              ELSE IF Last(Front(text)) = CR
                   THEN Front(Front(text))
                   ELSE Front(text)
         ELSE text

NoDigit == 0 - 1

\* to_digit as the unchecked subtraction b - b'0' reduced to one digit
to_digit_wrapping(b) == IF b >= 48 THEN (b - 48) % 10 ELSE NoDigit

\* (buf[0] as char).to_digit(10): Some(0..9) for '0'..'9', None otherwise
to_digit(b) == IF b >= 48 /\ b <= 57 THEN b - 48 ELSE NoDigit

RECURSIVE DecValue(_)
DecValue(s) ==
    IF s = <<>> THEN 0 ELSE 10 * DecValue(Front(s)) + (Last(s) - 48)

AllDigits(s) == \A i \in 1..Len(s) : to_digit(s[i]) # NoDigit

ParseErr == 0 - 1

\* parse::<usize>() with the empty string read as 0
parse_usize_empty_zero(s) ==
    IF s = <<>> THEN 0
    ELSE IF s[1] = 43
         THEN IF Len(s) = 1 \/ ~AllDigits(Tail(s)) THEN ParseErr
              ELSE DecValue(Tail(s))
         ELSE IF ~AllDigits(s) THEN ParseErr
              ELSE DecValue(s)

\* String::from_utf8_lossy(&buf).parse::<usize>(): the empty string and a
\* lone sign are errors, one leading '+' (43) is accepted, every other
\* character (U+FFFD of the lossy conversion included) must be a decimal
\* digit.  At most 9 digits are read, so the value fits a usize.
parse_usize(s) ==
    IF s = <<>> THEN ParseErr
    ELSE IF s[1] = 43
         THEN IF Len(s) = 1 \/ ~AllDigits(Tail(s)) THEN ParseErr
              ELSE DecValue(Tail(s))
         ELSE IF ~AllDigits(s) THEN ParseErr
              ELSE DecValue(s)

IsCont(b) == b >= 128 /\ b <= 191

\* String::from_utf8: does s[i..] consist of well-formed UTF-8 sequences
RECURSIVE ValidUtf8From(_, _)
ValidUtf8From(s, i) ==
    IF i > Len(s) THEN TRUE
    ELSE LET b == s[i]
             c(j) == IF i + j <= Len(s) THEN s[i + j] ELSE 0
         IN  IF b <= 127 THEN ValidUtf8From(s, i + 1)
             ELSE IF b >= 194 /\ b <= 223
                  THEN IsCont(c(1)) /\ ValidUtf8From(s, i + 2)
             ELSE IF b = 224
                  THEN c(1) >= 160 /\ c(1) <= 191 /\ IsCont(c(2))
                       /\ ValidUtf8From(s, i + 3)
             ELSE IF b = 237
                  THEN c(1) >= 128 /\ c(1) <= 159 /\ IsCont(c(2))
                       /\ ValidUtf8From(s, i + 3)
             ELSE IF b >= 225 /\ b <= 239
                  THEN IsCont(c(1)) /\ IsCont(c(2)) /\ ValidUtf8From(s, i + 3)
             ELSE IF b = 240
                  THEN c(1) >= 144 /\ c(1) <= 191 /\ IsCont(c(2))
                       /\ IsCont(c(3)) /\ ValidUtf8From(s, i + 4)
             ELSE IF b >= 241 /\ b <= 243
                  THEN IsCont(c(1)) /\ IsCont(c(2)) /\ IsCont(c(3))
                       /\ ValidUtf8From(s, i + 4)
             ELSE IF b = 244
                  THEN c(1) >= 128 /\ c(1) <= 143 /\ IsCont(c(2))
                       /\ IsCont(c(3)) /\ ValidUtf8From(s, i + 4)
             ELSE FALSE

from_utf8_ok(s) == ValidUtf8From(s, 1)

\* Vec::resize taken as "add newLen more elements"
resize_append(v, newLen, value) == v \o [i \in 1..newLen |-> value]

\* Vec::resize that only ever grows the vector
resize_grow_only(v, newLen, value) ==
    [i \in 1..(IF newLen > Len(v) THEN newLen ELSE Len(v)) |->
        IF i <= Len(v) THEN v[i] ELSE value]

\* Vec::resize(new_len, value): truncate, or extend with value
resize(v, newLen, value) ==
    [i \in 1..newLen |-> IF i <= Len(v) THEN v[i] ELSE value]

\* ------------------------------------------------------- stream primitives
Avail == Len(input) - pos

\* read_exact that reports success on a short read, as a plain read does
read_exact_short_ok(b) == TRUE

\* read_exact succeeds iff the stream still holds as many bytes as the buffer
read_exact_ok(b) == Len(b) <= Avail

\* the buffer after read_exact: every slot the stream can fill is overwritten
read_exact_buf(b) ==
    [i \in 1..Len(b) |-> IF pos + i <= Len(input) THEN input[pos + i] ELSE b[i]]

\* position after read_exact: past the buffer, or at the close on a short read
read_exact_pos(b) == IF Len(b) <= Avail THEN pos + Len(b) ELSE Len(input)

\* read_until that also stops at a carriage return
read_until_pos_stop_at_cr ==
    IF \E j \in (pos + 1)..Len(input) : input[j] \in {LF, CR}
    THEN CHOOSE j \in (pos + 1)..Len(input) :
            /\ input[j] \in {LF, CR}
            /\ \A i \in (pos + 1)..(j - 1) : input[i] \notin {LF, CR}
    ELSE Len(input)

\* read_until(b'\n', ..): index of the last byte taken, the first line feed
\* after pos or the last byte before the close
read_until_pos ==
    IF \E j \in (pos + 1)..Len(input) : input[j] = LF
    THEN CHOOSE j \in (pos + 1)..Len(input) :
            /\ input[j] = LF
            /\ \A i \in (pos + 1)..(j - 1) : input[i] # LF
    ELSE Len(input)

\* the bytes read_until appends to its buffer
read_until_bytes == SubSeq(input, pos + 1, read_until_pos)

\* ----------------------------------------------------------------- results
Outcome(kind, val, from, to) == [kind |-> kind, val |-> val, from |-> from, to |-> to]

\* the position at which the call in progress (or the next call) starts
callStart == IF results = <<>> THEN 0 ELSE results[Len(results)].to

\* the call returns: its locals are dropped and the outcome is recorded
Return(kind, val, from, to) ==
    /\ results' = Append(results, Outcome(kind, val, from, to))
    /\ pos' = to
    /\ pc' = "idle"
    /\ buf' = <<>>
    /\ end' = <<>>
    /\ k' = 0
    /\ n' = 0

\* ------------------------------------------------------------------ actions
Init ==
    /\ input \in Streams
    /\ pos = 0
    /\ pc = "idle"
    /\ buf = <<>>
    /\ end = <<>>
    /\ k = 0
    /\ n = 0
    /\ results = <<>>

\* ReadLead with the test of the lead byte inverted
ReadLead_inverted ==
    /\ pc = "idle"
    /\ Len(results) < MaxCalls
    /\ IF read_exact_ok(<<0>>)
       THEN /\ buf' = read_exact_buf(<<0>>)
            /\ pos' = read_exact_pos(<<0>>)
            /\ pc' = IF buf'[1] = HASH THEN "text" ELSE "digit"
            /\ UNCHANGED <<end, k, n, results>>
       ELSE Return("IoError", <<>>, pos, read_exact_pos(<<0>>))
    /\ UNCHANGED input

\* let mut buf = vec![0]; stream.read_exact(&mut buf); branch on buf[0]
ReadLead ==
    /\ pc = "idle"
    /\ Len(results) < MaxCalls
    /\ IF read_exact_ok(<<0>>)
       THEN /\ buf' = read_exact_buf(<<0>>)
            /\ pos' = read_exact_pos(<<0>>)
            /\ pc' = IF buf'[1] # HASH THEN "text" ELSE "digit"
            /\ UNCHANGED <<end, k, n, results>>
       ELSE Return("IoError", <<>>, pos, read_exact_pos(<<0>>))
    /\ UNCHANGED input

\* ReadText with a lossy conversion: a line that is not UTF-8 is returned
ReadText_lossy ==
    /\ pc = "text"
    /\ LET line == remove_newline(buf \o read_until_bytes)
       IN  Return("Text", line, callStart, read_until_pos)
    /\ UNCHANGED input

\* Ascii format: read_until, remove_newline, String::from_utf8
ReadText ==
    /\ pc = "text"
    /\ LET line == remove_newline(buf \o read_until_bytes)
       IN  IF from_utf8_ok(line)
           THEN Return("Text", line, callStart, read_until_pos)
           ELSE Return("InvalidText", <<>>, callStart, read_until_pos)
    /\ UNCHANGED input

\* Binary format: read the digit-count byte and convert it
ReadDigitCount ==
    /\ pc = "digit"
    /\ IF ~read_exact_ok(buf)
       THEN Return("IoError", <<>>, callStart, read_exact_pos(buf))
       ELSE IF to_digit(read_exact_buf(buf)[1]) = NoDigit
            THEN Return("InvalidLengthDigitCount", <<>>, callStart, read_exact_pos(buf))
            ELSE /\ buf' = read_exact_buf(buf)
                 /\ pos' = read_exact_pos(buf)
                 /\ k' = to_digit(read_exact_buf(buf)[1])
                 /\ pc' = "lenfield"
                 /\ UNCHANGED <<end, n, results>>
    /\ UNCHANGED input

\* buf.resize(n as usize, 0); stream.read_exact(&mut buf)
ReadLengthField ==
    /\ pc = "lenfield"
    /\ LET b == resize(buf, k, 0)
       IN  IF ~read_exact_ok(b)
           THEN Return("IoError", <<>>, callStart, read_exact_pos(b))
           ELSE /\ buf' = read_exact_buf(b)
                /\ pos' = read_exact_pos(b)
                /\ pc' = "parse"
                /\ UNCHANGED <<end, k, n, results>>
    /\ UNCHANGED input

\* String::from_utf8_lossy(&buf).parse::<usize>()
ParseLength ==
    /\ pc = "parse"
    /\ IF parse_usize(buf) = ParseErr
       THEN Return("InvalidLengthField", <<>>, callStart, pos)
       ELSE /\ n' = parse_usize(buf)
            /\ pc' = "payload"
            /\ UNCHANGED <<pos, buf, end, k, results>>
    /\ UNCHANGED input

\* buf.resize(n, 0); stream.read_exact(&mut buf)
ReadPayload ==
    /\ pc = "payload"
    /\ LET b == resize(buf, n, 0)
       IN  IF ~read_exact_ok(b)
           THEN Return("IoError", <<>>, callStart, read_exact_pos(b))
           ELSE /\ buf' = read_exact_buf(b)
                /\ pos' = read_exact_pos(b)
                /\ pc' = "end"
                /\ UNCHANGED <<end, k, n, results>>
    /\ UNCHANGED input

\* let mut end = Vec::new(); stream.read_until(b'\n', &mut end)
ReadEnd ==
    /\ pc = "end"
    /\ end' = read_until_bytes
    /\ pos' = read_until_pos
    /\ pc' = "check"
    /\ UNCHANGED <<input, buf, k, n, results>>

\* CheckEnd that demands a terminator: nothing read is an unexpected close
CheckEnd_require_terminator ==
    /\ pc = "check"
    /\ IF end = <<>>
       THEN Return("IoError", <<>>, callStart, pos)
       ELSE IF Len(remove_newline(end)) > 0
            THEN Return("TrailingGarbage", <<>>, callStart, pos)
            ELSE Return("Bin", buf, callStart, pos)
    /\ UNCHANGED input

\* remove_newline(&mut end); anything left is an error, else Bin(buf)
CheckEnd ==
    /\ pc = "check"
    /\ IF Len(remove_newline(end)) > 0
       THEN Return("TrailingGarbage", <<>>, callStart, pos)
       ELSE Return("Bin", buf, callStart, pos)
    /\ UNCHANGED input

Next ==
    \/ ReadLead
    \/ ReadText
    \/ ReadDigitCount
    \/ ReadLengthField
    \/ ParseLength
    \/ ReadPayload
    \/ ReadEnd
    \/ CheckEnd

Spec == Init /\ [][Next]_vars

\* remove_newline on its own: every byte sequence up to MaxLen is handed to
\* the helper once, the vector after the call is kept in buf
InitRemoveNewline ==
    /\ input \in Streams
    /\ pos = 0
    /\ pc = "remove_newline"
    /\ buf = input
    /\ end = <<>>
    /\ k = 0
    /\ n = 0
    /\ results = <<>>

CallRemoveNewline ==
    /\ pc = "remove_newline"
    /\ buf' = remove_newline(buf)
    /\ pc' = "removed"
    /\ UNCHANGED <<input, pos, end, k, n, results>>

NextRemoveNewline == CallRemoveNewline

SpecRemoveNewline == InitRemoveNewline /\ [][NextRemoveNewline]_vars

TypeOK ==
    /\ pos \in 0..Len(input)
    /\ pc \in {"idle", "text", "digit", "lenfield", "parse", "payload", "end", "check",
              "remove_newline", "removed"}
    /\ Len(results) <= MaxCalls

\* ------------------------------------------------- reference wire format
\* The framing of section 6 of the specification, stated on the stream
\* contents alone (positions are counts of bytes before the response).
IsDigitByte(b) == b >= 48 /\ b <= 57

Slice(f, t) == SubSeq(input, f + 1, t)

\* a text line of L bytes starts after f: no '#' in front, its only line
\* feed is its last byte
IsTextLine(f, L) ==
    /\ L >= 1
    /\ f + L <= Len(input)
    /\ input[f + 1] # HASH
    /\ input[f + L] = LF
    /\ \A i \in (f + 1)..(f + L - 1) : input[i] # LF

\* the content t of the text line: everything before \r\n, else before \n
TextContent(f, L) ==
    IF L >= 2 /\ input[f + L - 1] = CR
    THEN Slice(f, f + L - 2)
    ELSE Slice(f, f + L - 1)

\* '#', a digit-count kk in 1..9, kk decimal digits: the header of a block
IsBlockHeader(f) ==
    /\ f + 2 <= Len(input)
    /\ input[f + 1] = HASH
    /\ IsDigitByte(input[f + 2])
    /\ input[f + 2] # 48
    /\ f + 2 + (input[f + 2] - 48) <= Len(input)
    /\ \A i \in (f + 3)..(f + 2 + (input[f + 2] - 48)) : IsDigitByte(input[i])

HeaderK(f) == input[f + 2] - 48

RECURSIVE FieldValue(_, _)
FieldValue(f, j) ==
    IF j = 0 THEN 0 ELSE 10 * FieldValue(f, j - 1) + (input[f + 2 + j] - 48)

HeaderN(f) == FieldValue(f, HeaderK(f))

\* the count of bytes before the payload's end
PayloadEnd(f) == f + 2 + HeaderK(f) + HeaderN(f)

BlockPayload(f) == Slice(f + 2 + HeaderK(f), PayloadEnd(f))

\* a binary block of L bytes starts after f: header, payload, [\r]\n
IsBlock(f, L) ==
    /\ IsBlockHeader(f)
    /\ f + L <= Len(input)
    /\ \/ /\ f + L = PayloadEnd(f) + 1
          /\ input[f + L] = LF
       \/ /\ f + L = PayloadEnd(f) + 2
          /\ input[f + L - 1] = CR
          /\ input[f + L] = LF

IsResponse(f, L) ==
    \/ IsTextLine(f, L) /\ from_utf8_ok(TextContent(f, L))
    \/ IsBlock(f, L)

ResponseKind(f) == IF input[f + 1] = HASH THEN "Bin" ELSE "Text"

ResponseValue(f, L) ==
    IF input[f + 1] = HASH THEN BlockPayload(f) ELSE TextContent(f, L)

Calls == 1..Len(results)

Succeeded(r) == r.kind \in {"Text", "Bin"}

\* ------------------------------------------------------------------ claims

\* C1: a successful call on a well-formed response that is followed by
\* further bytes consumes exactly the bytes of that response.
C1_ConsumesOneResponse ==
    \A i \in Calls : \A L \in 1..Len(input) :
        (/\ IsResponse(results[i].from, L)
         /\ results[i].from + L < Len(input)
         /\ Succeeded(results[i]))
        => results[i].to = results[i].from + L

\* the boundary after the first m well-formed responses, or -1
RECURSIVE Boundary(_)
Boundary(m) ==
    IF m = 0 THEN 0
    ELSE LET f == Boundary(m - 1)
         IN  IF f < 0 \/ ~(\E L \in 1..Len(input) : IsResponse(f, L))
             THEN 0 - 1
             ELSE f + (CHOOSE L \in 1..Len(input) : IsResponse(f, L))

\* C2: when the stream starts with i well-formed responses, the i-th call
\* succeeds and returns the value of the i-th response.
C2_SuccessiveDecodes ==
    \A i \in Calls :
        Boundary(i) >= 0 =>
            /\ results[i].kind = ResponseKind(Boundary(i - 1))
            /\ results[i].val =
                 ResponseValue(Boundary(i - 1), Boundary(i) - Boundary(i - 1))

\* C3: a call that starts at a text line with valid UTF-8 content t
\* returns Text(t).
C3_TextDecoding ==
    \A i \in Calls : \A L \in 1..Len(input) :
        (/\ IsTextLine(results[i].from, L)
         /\ from_utf8_ok(TextContent(results[i].from, L)))
        => /\ results[i].kind = "Text"
           /\ results[i].val = TextContent(results[i].from, L)

\* the count of decimal digits of m
RECURSIVE NumDigits(_)
NumDigits(m) == IF m < 10 THEN 1 ELSE 1 + NumDigits(m \div 10)

\* '#', k, the k digits of n without leading zeros, n payload bytes, \n
IsCanonicalBlock(f) ==
    /\ IsBlockHeader(f)
    /\ HeaderK(f) = NumDigits(HeaderN(f))
    /\ PayloadEnd(f) + 1 <= Len(input)
    /\ input[PayloadEnd(f) + 1] = LF

\* C4: a call that starts at '#' k <n in k digits> <n payload bytes> \n
\* returns Binary(p) with p the n payload bytes, whatever bytes p holds.
C4_BinaryDecoding ==
    \A i \in Calls :
        IsCanonicalBlock(results[i].from)
        => /\ results[i].kind = "Bin"
           /\ results[i].val = BlockPayload(results[i].from)

\* C4 witness: a block whose payload holds a line feed was decoded
C4_Witness ==
    \E i \in Calls :
        /\ IsCanonicalBlock(results[i].from)
        /\ results[i].kind = "Bin"
        /\ \E j \in 1..Len(results[i].val) : results[i].val[j] = LF

\* C5: when the lead byte is not '#' and the stream closes before any line
\* feed arrives, the call returns IoError.
C5_UnterminatedTextIsIoError ==
    \A i \in Calls :
        (/\ results[i].from < Len(input)
         /\ input[results[i].from + 1] # HASH
         /\ \A j \in (results[i].from + 1)..Len(input) : input[j] # LF)
        => results[i].kind = "IoError"

\* the byte after '#' is '0'
ZeroDigitCount(r) ==
    /\ r.from + 2 <= Len(input)
    /\ input[r.from + 1] = HASH
    /\ input[r.from + 2] = 48

\* C6 as claimed: after "#0" the digit check passes and the call goes on
\* with n = 0 and an empty payload, so "#0\n" decodes to Binary([]).
C6_ZeroDigitCountDecodesEmpty ==
    \A i \in Calls :
        ZeroDigitCount(results[i]) =>
            /\ results[i].kind # "InvalidLengthDigitCount"
            /\ results[i].kind # "InvalidLengthField"
            /\ (/\ results[i].from + 3 <= Len(input)
                /\ input[results[i].from + 3] = LF)
               => (results[i].kind = "Bin" /\ results[i].val = <<>>)

\* C6 amended: after "#0" the digit check passes, no length-field byte is
\* consumed, the empty length field does not parse and the call fails with
\* InvalidLengthField having consumed exactly the 2 bytes "#0".
C6_ZeroDigitCountFailsLengthField ==
    \A i \in Calls :
        ZeroDigitCount(results[i]) =>
            /\ results[i].kind = "InvalidLengthField"
            /\ results[i].to = results[i].from + 2

\* C6 witness: "#0\n" was decoded and bytes are left on the stream
C6_Witness ==
    \E i \in Calls :
        /\ ZeroDigitCount(results[i])
        /\ results[i].from + 3 <= Len(input)
        /\ input[results[i].from + 3] = LF
        /\ results[i].kind = "InvalidLengthField"

\* '#', a digit-count kk in 1..9 and kk further bytes are on the stream
HasLengthField(r) ==
    /\ r.from + 2 <= Len(input)
    /\ input[r.from + 1] = HASH
    /\ IsDigitByte(input[r.from + 2])
    /\ input[r.from + 2] # 48
    /\ r.from + 2 + (input[r.from + 2] - 48) <= Len(input)

LengthField(r) == Slice(r.from + 2, r.from + 2 + (input[r.from + 2] - 48))

\* C7: the k length-field bytes are accepted if and only if each is a
\* decimal digit; otherwise the call fails with InvalidLengthField and has
\* read no payload byte.
C7_LengthFieldDigitsOnly ==
    \A i \in Calls :
        HasLengthField(results[i]) =>
            /\ (results[i].kind = "InvalidLengthField")
               <=> (\E j \in 1..Len(LengthField(results[i])) :
                       ~IsDigitByte(LengthField(results[i])[j]))
            /\ results[i].kind = "InvalidLengthField"
               => results[i].to = results[i].from + 2 + Len(LengthField(results[i]))

\* '#' is followed by a byte that is not '0'..'9'
BadDigitCount(r) ==
    /\ r.from + 2 <= Len(input)
    /\ input[r.from + 1] = HASH
    /\ ~IsDigitByte(input[r.from + 2])

\* C8: '#' followed by a byte other than '0'..'9' fails with
\* InvalidLengthDigitCount after consuming exactly 2 bytes.
C8_MalformedDigitCount ==
    \A i \in Calls :
        BadDigitCount(results[i]) =>
            /\ results[i].kind = "InvalidLengthDigitCount"
            /\ results[i].to = results[i].from + 2

\* C8 witness: "#" and the byte 0x80 were rejected with bytes left behind
C8_Witness ==
    \E i \in Calls :
        /\ BadDigitCount(results[i])
        /\ input[results[i].from + 2] = 128
        /\ results[i].kind = "InvalidLengthDigitCount"
        /\ results[i].to < Len(input)

\* the count of bytes between position p and the line terminator that
\* follows it (\r\n when a \r stands before the line feed, else \n), or up
\* to the close of the stream when no line feed follows
GarbageCount(p) ==
    IF \E j \in (p + 1)..Len(input) : input[j] = LF
    THEN LET j == CHOOSE j \in (p + 1)..Len(input) :
                     /\ input[j] = LF
                     /\ \A i \in (p + 1)..(j - 1) : input[i] # LF
         IN  IF j - 1 > p /\ input[j - 1] = CR THEN j - p - 2 ELSE j - p - 1
    ELSE Len(input) - p

HasPayload(r) == IsBlockHeader(r.from) /\ PayloadEnd(r.from) <= Len(input)

\* C9: when at least one byte lies between the payload's end and the line
\* terminator, the call fails with TrailingGarbage.
C9_TrailingGarbage ==
    \A i \in Calls :
        (/\ HasPayload(results[i])
         /\ GarbageCount(PayloadEnd(results[i].from)) >= 1)
        => results[i].kind = "TrailingGarbage"

\* C9 witness: a lone \r before the close of the stream was rejected
C9_Witness ==
    \E i \in Calls :
        /\ HasPayload(results[i])
        /\ PayloadEnd(results[i].from) + 1 = Len(input)
        /\ input[Len(input)] = CR
        /\ results[i].kind = "TrailingGarbage"

\* the stream closes before the digit-count byte, before the k length-field
\* bytes, or before the n declared payload bytes
ShortBlock(r) ==
    /\ r.from + 1 <= Len(input)
    /\ input[r.from + 1] = HASH
    /\ \/ r.from + 2 > Len(input)
       \/ /\ IsDigitByte(input[r.from + 2])
          /\ r.from + 2 + (input[r.from + 2] - 48) > Len(input)
       \/ /\ IsBlockHeader(r.from)
          /\ PayloadEnd(r.from) > Len(input)

\* C10: a block cut short by the close of the stream returns IoError, and
\* no Binary value is shorter than its declared length.
C10_ShortReadIsIoError ==
    \A i \in Calls :
        /\ ShortBlock(results[i]) => results[i].kind = "IoError"
        /\ (results[i].kind = "Bin" /\ IsBlockHeader(results[i].from))
           => Len(results[i].val) = HeaderN(results[i].from)

\* C10 witness: the stream closed in the middle of a declared payload
C10_Witness ==
    \E i \in Calls :
        /\ IsBlockHeader(results[i].from)
        /\ PayloadEnd(results[i].from) > Len(input)
        /\ Len(input) > results[i].from + 2 + HeaderK(results[i].from)
        /\ results[i].kind = "IoError"

\* the digit-count byte of the block that starts after f, as a number
DigitCount(f) == input[f + 2] - 48

\* the value of the decimal digits input[base + lo .. base + hi]
RECURSIVE ValueFrom(_, _, _)
ValueFrom(base, lo, hi) ==
    IF hi < lo THEN 0
    ELSE 10 * ValueFrom(base, lo, hi - 1) + (input[base + hi] - 48)

\* the length the length field declares, a sign in front of the digits
\* left aside
DeclaredLength(f) ==
    ValueFrom(f + 2, IF input[f + 3] = 43 THEN 2 ELSE 1, DigitCount(f))

\* the count of bytes before the first payload byte
PayloadStart(f) == f + 2 + DigitCount(f)

\* C11: whenever a call returns Binary(p), p has the declared length n and
\* is the n stream bytes that follow the length field.
C11_PayloadIntegrity ==
    \A i \in Calls :
        results[i].kind = "Bin" =>
            /\ Len(results[i].val) = DeclaredLength(results[i].from)
            /\ results[i].val =
                 Slice(PayloadStart(results[i].from),
                       PayloadStart(results[i].from) + DeclaredLength(results[i].from))

\* C11 witness: a payload was returned whose first byte differs from the
\* digit-count byte and from the length-field byte the buffer held before
C11_Witness ==
    \E i \in Calls :
        /\ results[i].kind = "Bin"
        /\ Len(results[i].val) >= 1
        /\ results[i].val[1] # input[results[i].from + 2]
        /\ results[i].val[1] # input[results[i].from + 3]
        /\ results[i].val[1] # 0

\* b without its line terminator: without \r\n when it ends in \r\n, else
\* without \n when it ends in \n, else b itself
StripTerminator(b) ==
    IF Len(b) >= 2 /\ b[Len(b) - 1] = CR /\ b[Len(b)] = LF
    THEN SubSeq(b, 1, Len(b) - 2)
    ELSE IF Len(b) >= 1 /\ b[Len(b)] = LF
         THEN SubSeq(b, 1, Len(b) - 1)
         ELSE b

\* C12: remove_newline removes a trailing \r\n, else a trailing \n, else
\* nothing, and leaves every byte before the terminator as it was.
C12_RemoveNewline ==
    pc = "removed" => buf = StripTerminator(input)

\* C12 witness: a \r\n was removed from a sequence that kept a \r before it
C12_Witness ==
    /\ pc = "removed"
    /\ Len(input) >= 3
    /\ input[Len(input)] = LF
    /\ input[Len(input) - 1] = CR
    /\ input[Len(input) - 2] = CR
    /\ Len(buf) = Len(input) - 2

TextFamily == {"Text", "InvalidText", "IoError"}

BinaryFamily ==
    {"Bin", "InvalidLengthDigitCount", "InvalidLengthField", "TrailingGarbage",
     "IoError"}

\* C13: the lead byte alone fixes the family of outcomes: not '#' gives
\* Text, InvalidText or IoError; '#' gives Binary, InvalidLengthDigitCount,
\* InvalidLengthField, TrailingGarbage or IoError.
C13_DispatchByLeadByte ==
    \A i \in Calls :
        results[i].from < Len(input) =>
            IF input[results[i].from + 1] # HASH
            THEN results[i].kind \in TextFamily
            ELSE results[i].kind \in BinaryFamily

\* C13 witness: one stream gave a text outcome and then a binary outcome
C13_Witness ==
    \E i \in Calls : \E j \in Calls :
        /\ results[i].from < Len(input)
        /\ input[results[i].from + 1] # HASH
        /\ results[i].kind = "Text"
        /\ results[j].from < Len(input)
        /\ input[results[j].from + 1] = HASH
        /\ results[j].kind \in BinaryFamily \ {"IoError"}

\* the call started at a lead byte other than '#'
OnTextPath(r) == r.from < Len(input) /\ input[r.from + 1] # HASH

\* the bytes a call consumed
Consumed(r) == Slice(r.from, r.to)

\* C14: on the text path the call returns Text exactly when the bytes left
\* after terminator stripping are valid UTF-8, with those bytes unchanged,
\* and InvalidText otherwise.
C14_InvalidText ==
    \A i \in Calls :
        OnTextPath(results[i]) =>
            IF from_utf8_ok(StripTerminator(Consumed(results[i])))
            THEN /\ results[i].kind = "Text"
                 /\ results[i].val = StripTerminator(Consumed(results[i]))
            ELSE results[i].kind = "InvalidText"

\* C14 witness: a terminated line holding the byte 0x80 was rejected
C14_Witness ==
    \E i \in Calls :
        /\ OnTextPath(results[i])
        /\ results[i].kind = "InvalidText"
        /\ input[results[i].to] = LF
        /\ \E j \in (results[i].from + 2)..results[i].to : input[j] = 128

\* the position after the first line feed behind p, or the close
AfterLine(p) ==
    IF \E j \in (p + 1)..Len(input) : input[j] = LF
    THEN CHOOSE j \in (p + 1)..Len(input) :
            /\ input[j] = LF
            /\ \A i \in (p + 1)..(j - 1) : input[i] # LF
    ELSE Len(input)

\* C15: InvalidLengthField leaves exactly 2 + k bytes consumed;
\* TrailingGarbage leaves header, payload and everything up to and
\* including the next line feed (or the close) consumed; the next call
\* starts there.
C15_ConsumedOnDecodeErrors ==
    \A i \in Calls :
        /\ results[i].kind = "InvalidLengthField"
           => results[i].to = PayloadStart(results[i].from)
        /\ results[i].kind = "TrailingGarbage"
           => results[i].to =
                AfterLine(PayloadStart(results[i].from)
                          + DeclaredLength(results[i].from))
        /\ (results[i].kind \in {"InvalidLengthField", "TrailingGarbage"}
            /\ i + 1 \in Calls)
           => results[i + 1].from = results[i].to

\* C15 witness: garbage that starts with \r was consumed up to the close
\* or the line feed and the next call started behind it
C15_Witness ==
    \E i \in Calls :
        /\ results[i].kind = "TrailingGarbage"
        /\ input[PayloadStart(results[i].from)
                 + DeclaredLength(results[i].from) + 1] = CR
        /\ results[i].to >= PayloadStart(results[i].from)
                            + DeclaredLength(results[i].from) + 2
        /\ i + 1 \in Calls

\* the stream closes right behind the n payload bytes of a block
ClosedAfterPayload(r) ==
    /\ IsBlockHeader(r.from)
    /\ PayloadEnd(r.from) = Len(input)

\* C16: a block whose payload is followed by the close of the stream, with
\* no \r and no \n, is returned as Binary(p).
C16_NoTerminatorAtClose ==
    \A i \in Calls :
        ClosedAfterPayload(results[i]) =>
            /\ results[i].kind = "Bin"
            /\ results[i].val = BlockPayload(results[i].from)

\* C16 witness: a non-empty payload at the very end of the stream
C16_Witness ==
    \E i \in Calls :
        /\ ClosedAfterPayload(results[i])
        /\ HeaderN(results[i].from) >= 1
        /\ results[i].kind = "Bin"

====
